---- MODULE Spec2Model ----
(***************************************************************************)
(* Model of the vMAX capacity dashboard: the collection task of            *)
(* api_server.py (collect_capacity_data), the WebSocket connection         *)
(* manager, the trigger endpoint, and the four level collectors of         *)
(* vmax_collector.py.                                                      *)
(*                                                                         *)
(* Scheduling.  The server is one asyncio event loop.  A coroutine runs    *)
(* without interruption until it suspends at an await that really waits:   *)
(* here, connection.send_json inside ConnectionManager.broadcast.  The     *)
(* collector calls are synchronous and block the loop.  A run whose pc is  *)
(* in BusyPcs is the coroutine the loop is executing; while one exists no  *)
(* other handler or run takes a step.                                      *)
(***************************************************************************)
EXTENDS Integers, Sequences, FiniteSets, TLC

\* ---------------------------------------------------------------- bounds
MaxRuns == 2        \* collection tasks alive at a time
MaxSockets == 2     \* WebSocket objects ever created
MaxIds == 2         \* identifiers the array may hold, all levels together
MaxServerIds == 1   \* the same, for the arrays the server specification runs against
MaxServerSockets == 1  \* sockets that connect in the server specification
MaxClock == 2       \* the last reading of the wall clock
MaxBusSockets == 2  \* sockets that connect in the notification-bus specification
MaxGroups == 3      \* storage groups in a snapshot that is queried
MaxVolumes == 3     \* volumes in a snapshot that is queried
MaxLimit == 2       \* the largest limit and offset a query is sent with

Runs == 1..MaxRuns
Sockets == 1..MaxSockets
Levels == {"srp", "sg", "vol"}

\* Python's None where a record is expected, and where a timestamp is expected
None == [type |-> "None"]
NoTime == -1
\* an Optional value: None, or the value given
Absent == [given |-> FALSE]
Some(v) == [given |-> TRUE, value |-> v]
ArrayId == "000197900123"

\* ------------------------------------------------------------ exceptions
\* Exceptions a call on the PyU4V connection can raise, by the except clause
\* that catches them: VolumeBackendAPIException has its own clause, the
\* other two fall to `except Exception`.
FetchExceptions == {"VolumeBackendAPIException", "ConnectionError", "AuthenticationError"}

\* str(e) of a DataCollectionError built as f"{prefix}: {e}"
DataCollectionError(prefix, cause) == [type |-> "DataCollectionError", prefix |-> prefix, cause |-> cause]

\* list.remove(x) on a list that does not hold x
ValueErrorNotInList == [type |-> "ValueError", prefix |-> "list.remove(x)", cause |-> "x not in list"]

\* load_config / VmaxCapacityCollector.__init__ failures
ConfigErrors == {[type |-> "FileNotFoundError", prefix |-> "Configuration file not found", cause |-> "config.json"]}
InitErrors ==
  { [type |-> "ConnectionError", prefix |-> "Cannot connect to Unisphere", cause |-> "ConnectionError"],
    [type |-> "AuthenticationError", prefix |-> "Invalid credentials", cause |-> "AuthenticationError"] }

VARIABLES
  current_snapshot,        \* api_server.current_snapshot
  collection_in_progress,  \* api_server.collection_in_progress
  last_collection_time,    \* api_server.last_collection_time
  collection_error,        \* api_server.collection_error
  active_connections,      \* manager.active_connections (a list)
  ws,                      \* websocket_endpoint of each socket: "new", "open", "gone"
  response,                \* last reply of trigger_collection
  pc,                      \* position of each collection task
  bc,                      \* locals of the task's current broadcast call
  published,               \* messages each task has passed to manager.broadcast
  exc,                     \* exception in flight in each task (None if none)
  before,                  \* the snapshot that was stored when each task started
  session,                 \* the task's collector: state of conn and close_session calls
  asm,                     \* locals of get_all_capacity_data and the level collectors
  fetched,                 \* calls each task has issued on the PyU4V connection
  array,                   \* what the array holds: number of ids per level
  faults,                  \* the ways a call outside the server fails in this behaviour
  clock,                   \* datetime.now()
  history                  \* how the runs that terminated ended: the last one, any one

serverVars == <<current_snapshot, collection_in_progress, last_collection_time, collection_error>>
taskVars == <<pc, bc, published, exc, before, session, asm, fetched>>
envVars == <<array, faults>>
vars == <<current_snapshot, collection_in_progress, last_collection_time, collection_error,
          active_connections, ws, response, pc, bc, published, exc, before, session,
          asm, fetched, array, faults, clock, history>>

\* ------------------------------------------------------------ scheduling
BusyPcs == {"broadcast", "cleanup", "config", "assemble", "system", "srp_keys", "srp_stats",
            "sg_list", "sg_details", "vol_list", "vol_details", "snapshot", "store",
            "with_exit", "except", "finally"}
Busy == \E r \in Runs : pc[r] \in BusyPcs
\* a run that has started and has not reached its terminal step
InFlightPcs == BusyPcs \cup {"send_json"}
InFlight(r) == pc[r] \in InFlightPcs

\* ----------------------------------------------------- ConnectionManager
RECURSIVE Remove(_, _)
\* list.remove(x): drops the first occurrence
Remove(s, x) ==
  IF s = <<>> THEN <<>>
  ELSE IF Head(s) = x THEN Tail(s) ELSE <<Head(s)>> \o Remove(Tail(s), x)

Contains(s, x) == \E i \in 1..Len(s) : s[i] = x

\* ConnectionManager.disconnect: the list afterwards, raised if remove raised
disconnect(conns, websocket) ==
  IF Contains(conns, websocket)
    THEN [conns |-> Remove(conns, websocket), raised |-> FALSE]
    ELSE [conns |-> conns, raised |-> TRUE]

RECURSIVE cleanup(_, _)
\* the clean-up loop of broadcast: disconnect each failed client in turn,
\* stopping at the first disconnect that raises
cleanup(conns, disc) ==
  IF disc = <<>> THEN [conns |-> conns, raised |-> FALSE]
  ELSE LET d == disconnect(conns, Head(disc)) IN
       IF d.raised THEN d ELSE cleanup(d.conns, Tail(disc))

NoBroadcast == [message |-> None, idx |-> 0, awaiting |-> 0, disconnected |-> <<>>, tried |-> <<>>,
                registered |-> <<>>]

\* entry of manager.broadcast(m) in task r
broadcast(r, m) ==
  /\ bc' = [bc EXCEPT ![r] = [message |-> m, idx |-> 0, awaiting |-> 0,
                              disconnected |-> <<>>, tried |-> <<>>,
                              registered |-> active_connections]]
  /\ published' = [published EXCEPT ![r] = Append(@, m)]
  /\ pc' = [pc EXCEPT ![r] = "broadcast"]

\* ------------------------------------------------------------- Init
NoAsm == [collection_start |-> NoTime, system_capacity |-> None, srp_capacities |-> <<>>,
          storage_group_capacities |-> <<>>, volume_capacities |-> <<>>,
          ids |-> <<>>, k |-> 0, snapshot |-> None,
          sg_details |-> None, vol_details |-> None]
NoSession == [conn |-> "none", closes |-> 0]

Arrays == {a \in [Levels -> 0..MaxIds] : a["srp"] + a["sg"] + a["vol"] <= MaxIds}
ServerArrays == {a \in Arrays : a["srp"] + a["sg"] + a["vol"] = MaxServerIds}

\* every way a call outside the server can fail: the exceptions of a PyU4V
\* call, a KeyError inside it, an empty answer, get_array_stats without
\* 'result', a value float() rejects, a pool entry without an id, a failing
\* close_session, a missing config.json
AllFaults == FetchExceptions \cup {"KeyError", "empty", "invalid", "malformed", "no_id",
                                   "close_error", "FileNotFoundError"}
ServerFaults == {"ConnectionError"}
\* the array answers every call, with numbers of any sign and size; the
\* configuration file may be missing
ValueFaults == {"out_of_range", "FileNotFoundError"}

\* history is kept only in the behaviours that start with tracked set
NoHistory == [tracked |-> FALSE, last |-> "none", error |-> None, succeeded |-> FALSE]
\* the history that goes with the store a behaviour starts from
InitHistory ==
  history = IF current_snapshot = None
              THEN [NoHistory EXCEPT !.tracked = TRUE]
              ELSE [tracked |-> TRUE, last |-> "completed", error |-> None, succeeded |-> TRUE]

InitTasks ==
  /\ bc = [r \in Runs |-> NoBroadcast]
  /\ published = [r \in Runs |-> <<>>]
  /\ exc = [r \in Runs |-> None]
  /\ before = [r \in Runs |-> None]
  /\ session = [r \in Runs |-> NoSession]
  /\ asm = [r \in Runs |-> NoAsm]
  /\ fetched = [r \in Runs |-> <<>>]

Init ==
  /\ current_snapshot = None
  /\ collection_in_progress = FALSE
  /\ last_collection_time = NoTime
  /\ collection_error = None
  /\ active_connections = <<>>
  \* the sockets beyond MaxServerSockets are clients that came and left
  /\ ws = [w \in Sockets |-> IF w <= MaxServerSockets THEN "new" ELSE "gone"]
  /\ response = None
  /\ pc = [r \in Runs |-> "idle"]
  /\ InitTasks
  /\ history = NoHistory
  /\ array \in ServerArrays
  /\ faults = ServerFaults
  /\ clock = 1

\* a snapshot stored by an earlier run, at time 0
PrevSnapshot ==
  [array_id |-> ArrayId, collection_timestamp |-> 0, system_capacity |-> None,
   srp_capacities |-> <<>>, storage_group_capacities |-> <<>>, volume_capacities |-> <<>>]

\* one accepted trigger, no client connected, any array, every fault; the
\* store is empty or holds the snapshot of an earlier run
InitRun ==
  /\ current_snapshot \in {None, PrevSnapshot}
  /\ collection_in_progress = FALSE
  /\ last_collection_time = IF current_snapshot = None THEN NoTime ELSE 0
  /\ collection_error = None
  /\ active_connections = <<>>
  /\ ws = [w \in Sockets |-> "gone"]
  /\ response = [status |-> 200, detail |-> "started"]
  /\ pc = [r \in Runs |-> IF r = 1 THEN "scheduled" ELSE "idle"]
  /\ InitTasks
  /\ InitHistory
  /\ array \in Arrays
  /\ faults = AllFaults
  /\ clock = 1

Last(s) == s[Len(s)]
\* the except clause of task r has run: collection_error is published
Failed(r) == published[r] # <<>> /\ Last(published[r]).type = "collection_error"

\* how task r ends: by an exception of the collection_started broadcast, after
\* its except clause, or after storing a snapshot and publishing it
Outcome(r) ==
  IF pc[r] = "cleanup" THEN "raised" ELSE IF Failed(r) THEN "failed" ELSE "completed"

\* the coroutine of task r ends: its frame and the records kept about it go
end_task(r) ==
  /\ history' = IF ~history.tracked THEN history
                ELSE [tracked |-> TRUE,
                      last |-> Outcome(r),
                      error |-> IF Outcome(r) = "failed" THEN Last(published[r]).error ELSE None,
                      succeeded |-> history.succeeded \/ Outcome(r) = "completed"]
  /\ pc' = [pc EXCEPT ![r] = "idle"]
  /\ bc' = [bc EXCEPT ![r] = NoBroadcast]
  /\ published' = [published EXCEPT ![r] = <<>>]
  /\ exc' = [exc EXCEPT ![r] = None]
  /\ before' = [before EXCEPT ![r] = None]
  /\ session' = [session EXCEPT ![r] = NoSession]
  /\ asm' = [asm EXCEPT ![r] = NoAsm]
  /\ fetched' = [fetched EXCEPT ![r] = <<>>]

\* ----------------------------------------------------------- the clock
Tick ==
  /\ clock < MaxClock
  /\ clock' = clock + 1
  /\ UNCHANGED <<history, serverVars, active_connections, ws, response, taskVars, envVars>>

\* ---------------------------------------------------- trigger_collection
trigger_collection(force_refresh) ==
  /\ ~Busy
  /\ IF collection_in_progress /\ ~force_refresh
       THEN /\ response' = [status |-> 409, detail |-> "Collection already in progress"]
            /\ UNCHANGED pc
       ELSE /\ \E r \in Runs :
                 /\ pc[r] = "idle"
                 /\ \A q \in Runs : q < r => pc[q] # "idle"
                 /\ pc' = [pc EXCEPT ![r] = "scheduled"]   \* background_tasks.add_task
            /\ response' = [status |-> 200, detail |-> "started"]
  /\ UNCHANGED <<history, serverVars, active_connections, ws, bc, published, exc, session, asm,
                 fetched, envVars, clock, before>>

\* ---------------------------------------------------- websocket_endpoint
\* manager.connect: accept, then append to the registry
connect(w) ==
  /\ ~Busy
  /\ ws[w] = "new"
  /\ ws' = [ws EXCEPT ![w] = "open"]
  /\ active_connections' = Append(active_connections, w)
  /\ UNCHANGED <<history, serverVars, response, taskVars, envVars, clock>>

\* the except branches of websocket_endpoint: the client went away or a
\* message could not be handled; manager.disconnect(websocket) and the
\* handler ends (a ValueError of remove ends it as well)
websocket_endpoint_except(w) ==
  /\ ~Busy
  /\ ws[w] = "open"
  /\ ws' = [ws EXCEPT ![w] = "gone"]
  /\ active_connections' = disconnect(active_connections, w).conns
  /\ UNCHANGED <<history, serverVars, response, taskVars, envVars, clock>>

\* ------------------------------------------------ collect_capacity_data
\* collect_capacity_data as it would be if it left collection_error alone
collect_capacity_data_keeps_error(r) ==
  /\ ~Busy
  /\ pc[r] = "scheduled"
  /\ collection_in_progress' = TRUE
  /\ before' = [before EXCEPT ![r] = current_snapshot]
  /\ broadcast(r, [type |-> "collection_started", timestamp |-> clock])
  /\ UNCHANGED <<history, current_snapshot, last_collection_time, collection_error,
                 active_connections, ws, response, exc, session, asm, fetched, envVars, clock>>

\* lines 162-173: the task starts, sets the flag and publishes collection_started
collect_capacity_data(r) ==
  /\ ~Busy
  /\ pc[r] = "scheduled"
  /\ collection_in_progress' = TRUE
  /\ collection_error' = None
  /\ before' = [before EXCEPT ![r] = current_snapshot]
  /\ broadcast(r, [type |-> "collection_started", timestamp |-> clock])
  /\ UNCHANGED <<history, current_snapshot, last_collection_time, active_connections, ws, response,
                 exc, session, asm, fetched, envVars, clock>>

\* the for loop of broadcast: the list iterator reads the live registry
broadcast_next(r) ==
  /\ pc[r] = "broadcast"
  /\ IF bc[r].idx < Len(active_connections)
       THEN /\ bc' = [bc EXCEPT ![r].awaiting = active_connections[bc[r].idx + 1],
                                ![r].idx = @ + 1,
                                ![r].tried = Append(@, active_connections[bc[r].idx + 1])]
            /\ pc' = [pc EXCEPT ![r] = "send_json"]
       ELSE /\ pc' = [pc EXCEPT ![r] = "cleanup"]
            /\ UNCHANGED bc
  /\ UNCHANGED <<history, serverVars, active_connections, ws, response, published, exc, session,
                 asm, fetched, envVars, clock, before>>

\* await connection.send_json(message) returns
send_json_returns(r) ==
  /\ ~Busy
  /\ pc[r] = "send_json"
  /\ ws[bc[r].awaiting] = "open"
  /\ pc' = [pc EXCEPT ![r] = "broadcast"]
  /\ UNCHANGED <<history, serverVars, active_connections, ws, response, bc, published, exc, session,
                 asm, fetched, envVars, clock, before>>

\* await connection.send_json(message) raises
send_json_raises(r) ==
  /\ ~Busy
  /\ pc[r] = "send_json"
  /\ bc' = [bc EXCEPT ![r].disconnected = Append(@, bc[r].awaiting)]
  /\ pc' = [pc EXCEPT ![r] = "broadcast"]
  /\ UNCHANGED <<history, serverVars, active_connections, ws, response, published, exc, session,
                 asm, fetched, envVars, clock, before>>

\* where the task goes when its broadcast returns
AfterBroadcast(type) ==
  CASE type = "collection_started" -> "config"
    [] type = "collection_progress" -> "assemble"
    [] type = "collection_completed" -> "with_exit"
    [] type = "collection_error" -> "finally"

\* where the task goes when its broadcast raises: collection_started is
\* published outside the try statement, collection_progress and
\* collection_completed inside the with block, collection_error inside the
\* except clause
AfterBroadcastRaises(type) ==
  CASE type = "collection_started" -> "idle"
    [] type = "collection_progress" -> "with_exit"
    [] type = "collection_completed" -> "with_exit"
    [] type = "collection_error" -> "finally"

\* lines 154-156: clean up disconnected clients, then return to the caller
broadcast_cleanup(r) ==
  /\ pc[r] = "cleanup"
  /\ LET c == cleanup(active_connections, bc[r].disconnected)
         type == bc[r].message.type IN
       /\ active_connections' = c.conns
       /\ IF c.raised /\ type = "collection_started"
            THEN end_task(r)
            ELSE /\ pc' = [pc EXCEPT ![r] = IF c.raised THEN AfterBroadcastRaises(type)
                                                        ELSE AfterBroadcast(type)]
                 \* leaving the except clause normally: the exception is handled
                 /\ exc' = [exc EXCEPT ![r] = IF c.raised THEN ValueErrorNotInList
                                              ELSE IF type = "collection_error" THEN None
                                              ELSE @]
                 /\ UNCHANGED <<bc, published, before, session, asm, fetched, history>>
  /\ UNCHANGED <<serverVars, ws, response, envVars, clock>>

\* ---------------------------------------------------------- data_models
\* a / b * 100
Percent(a, b) == (a * 100) \div b

\* SystemCapacity as it would be if __post_init__ derived for every maximum
SystemCapacity_derives_always(array_id, timestamp, effective_used, max_effective, subscribed, total_usable) ==
  [array_id |-> array_id, timestamp |-> timestamp,
   effective_used_capacity_gb |-> effective_used,
   max_effective_capacity_gb |-> max_effective,
   subscribed_capacity_gb |-> subscribed,
   total_usable_capacity_gb |-> total_usable,
   free_capacity_gb |-> max_effective - effective_used,
   utilization_percent |-> IF max_effective = 0 THEN 0 ELSE Percent(effective_used, max_effective)]

SystemCapacity(array_id, timestamp, effective_used, max_effective, subscribed, total_usable) ==
  [array_id |-> array_id, timestamp |-> timestamp,
   effective_used_capacity_gb |-> effective_used,
   max_effective_capacity_gb |-> max_effective,
   subscribed_capacity_gb |-> subscribed,
   total_usable_capacity_gb |-> total_usable,
   free_capacity_gb |-> IF max_effective > 0 THEN max_effective - effective_used ELSE 0,
   utilization_percent |-> IF max_effective > 0 THEN Percent(effective_used, max_effective) ELSE 0]

SrpCapacity(array_id, srp_id, timestamp, used, subscribed, total_managed) ==
  [array_id |-> array_id, srp_id |-> srp_id, timestamp |-> timestamp,
   used_capacity_gb |-> used,
   subscribed_capacity_gb |-> subscribed,
   total_managed_space_gb |-> total_managed,
   free_capacity_gb |-> IF total_managed > 0 THEN total_managed - used ELSE 0,
   utilization_percent |-> IF total_managed > 0 THEN Percent(used, total_managed) ELSE 0,
   subscription_percent |-> IF total_managed > 0 THEN Percent(subscribed, total_managed) ELSE 0]

StorageGroupCapacity(array_id, storage_group_id, timestamp, capacity_gb, num_volumes, service_level, srp_name, compression_enabled) ==
  [array_id |-> array_id, storage_group_id |-> storage_group_id, timestamp |-> timestamp,
   capacity_gb |-> IF capacity_gb < 0 THEN 0 ELSE capacity_gb,
   num_volumes |-> num_volumes, service_level |-> service_level, srp_name |-> srp_name,
   compression_enabled |-> compression_enabled]

\* VolumeCapacity as it would be without __post_init__
VolumeCapacity_as_given(array_id, volume_id, volume_identifier, timestamp, capacity_gb, allocated_percent, storage_groups, wwn, emulation_type) ==
  [array_id |-> array_id, volume_id |-> volume_id, volume_identifier |-> volume_identifier,
   timestamp |-> timestamp, capacity_gb |-> capacity_gb, allocated_percent |-> allocated_percent,
   storage_groups |-> storage_groups, wwn |-> wwn, emulation_type |-> emulation_type]

VolumeCapacity(array_id, volume_id, volume_identifier, timestamp, capacity_gb, allocated_percent, storage_groups, wwn, emulation_type) ==
  [array_id |-> array_id, volume_id |-> volume_id, volume_identifier |-> volume_identifier,
   timestamp |-> timestamp,
   capacity_gb |-> IF capacity_gb < 0 THEN 0 ELSE capacity_gb,
   allocated_percent |-> IF ~(0 <= allocated_percent /\ allocated_percent <= 100)
                           THEN 0 ELSE allocated_percent,
   storage_groups |-> storage_groups, wwn |-> wwn, emulation_type |-> emulation_type]

CapacitySnapshot(array_id, collection_timestamp, system_capacity, srp_capacities, storage_group_capacities, volume_capacities) ==
  [array_id |-> array_id, collection_timestamp |-> collection_timestamp,
   system_capacity |-> system_capacity, srp_capacities |-> srp_capacities,
   storage_group_capacities |-> storage_group_capacities,
   volume_capacities |-> volume_capacities]

total_srps(snapshot) == Len(snapshot.srp_capacities)
total_storage_groups(snapshot) == Len(snapshot.storage_group_capacities)
total_volumes(snapshot) == Len(snapshot.volume_capacities)

\* ------------------------------------------- what the array answers with
\* stats['result'][0] of get_array_stats; the second is the empty result,
\* read with .get(name, 0)
FullResult == [EffectiveUsedCapacity |-> 750, MaxEffectiveCapacity |-> 1000,
               SubscribedCapacity |-> 1200, TotalUsableCapacity |-> 1500]
SystemResults ==
  { FullResult,
    [EffectiveUsedCapacity |-> 0, MaxEffectiveCapacity |-> 0,
     SubscribedCapacity |-> 0, TotalUsableCapacity |-> 0] }
SrpResults == { [UsedCapacity |-> 600, SubscribedCapacity |-> 900, TotalManagedSpace |-> 1000] }
StorageGroupDetails ==
  { [cap_gb |-> 100, num_of_vols |-> 2, slo |-> Some("Diamond"), srp |-> "SRP_1", compression |-> TRUE] }
VolumeDetails ==
  { [volume_identifier |-> "vol", cap_gb |-> 50, allocated_percent |-> 40,
     storageGroupId |-> <<"sg_1">>, wwn |-> "60000970", type |-> "FBA"] }

\* answers with numbers a healthy array does not give: given only in the
\* behaviours whose faults say so
OutOfRange(answers) == IF "out_of_range" \in faults THEN answers ELSE {}
SystemValues ==
  [EffectiveUsedCapacity : {750, 1200}, MaxEffectiveCapacity : {-1000, 0, 1000},
   SubscribedCapacity : {1200}, TotalUsableCapacity : {1500}]
SrpValues == [UsedCapacity : {600}, SubscribedCapacity : {900, 1500},
              TotalManagedSpace : {-1000, 0, 1000}]
StorageGroupValues ==
  [cap_gb : {-5, 0, 100}, num_of_vols : {2}, slo : {Some("Diamond")}, srp : {"SRP_1"},
   compression : {TRUE}]
VolumeValues ==
  [volume_identifier : {"vol"}, cap_gb : {-5, 50}, allocated_percent : {-1, 0, 100, 101},
   storageGroupId : {<<"sg_1">>}, wwn : {"60000970"}, type : {"FBA"}]

\* the id list a list call returns for a level: ids 1..n
IdList(n) == [i \in 1..n |-> i]

\* one call on the PyU4V connection, as logged in fetched
Call(call, id, result) == [call |-> call, id |-> id, result |-> result]

\* an exception leaves the with block of collect_capacity_data
raise(r, e) ==
  /\ exc' = [exc EXCEPT ![r] = e]
  /\ pc' = [pc EXCEPT ![r] = "with_exit"]

\* ------------------------------------------------ collect_capacity_data
\* lines 175-193: load_config, VmaxCapacityCollector(...), collection_progress
collector_open(r) ==
  /\ pc[r] = "config"
  /\ \/ \E e \in {x \in ConfigErrors \cup InitErrors : x.type \in faults} :
          /\ exc' = [exc EXCEPT ![r] = e]
          /\ pc' = [pc EXCEPT ![r] = "except"]
          /\ UNCHANGED <<bc, published, session>>
     \/ /\ session' = [session EXCEPT ![r].conn = "open"]
        /\ broadcast(r, [type |-> "collection_progress", step |-> "system"])
        /\ UNCHANGED exc
  /\ UNCHANGED <<history, serverVars, active_connections, ws, response, asm, fetched, envVars, clock, before>>

\* ------------------------------------------------------- vmax_collector
\* get_all_capacity_data as it would be if it began with the pools
get_all_capacity_data_skips_system(r) ==
  /\ pc[r] = "assemble"
  /\ asm' = [asm EXCEPT ![r].collection_start = clock]
  /\ pc' = [pc EXCEPT ![r] = "srp_keys"]
  /\ UNCHANGED <<history, serverVars, active_connections, ws, response, bc, published, exc, session,
                 fetched, envVars, clock, before>>

\* get_all_capacity_data, line 591: collection_start = datetime.now()
get_all_capacity_data(r) ==
  /\ pc[r] = "assemble"
  /\ asm' = [asm EXCEPT ![r].collection_start = clock]
  /\ pc' = [pc EXCEPT ![r] = "system"]
  /\ UNCHANGED <<history, serverVars, active_connections, ws, response, bc, published, exc, session,
                 fetched, envVars, clock, before>>

SystemPrefix(cause) ==
  CASE cause = "VolumeBackendAPIException" -> "Failed to retrieve system summary"
    [] cause = "KeyError" -> "API response missing required field"
    [] OTHER -> "System summary collection failed"

\* get_system_summary as it would be if a failure were logged and swallowed:
\* the collector returns no system capacity and the caller goes on
get_system_summary_degrades(r) ==
  /\ pc[r] = "system"
  /\ \/ \E e \in FetchExceptions \cap faults :
          /\ fetched' = [fetched EXCEPT ![r] = Append(@, Call("get_array_keys", 0, e))]
          /\ UNCHANGED asm
     \/ /\ fetched' = [fetched EXCEPT ![r] = @ \o <<Call("get_array_keys", 0, "ok"),
                                                    Call("get_array_stats", 0, "ok")>>]
        /\ asm' = [asm EXCEPT ![r].system_capacity =
                     SystemCapacity(ArrayId, clock, FullResult.EffectiveUsedCapacity,
                                    FullResult.MaxEffectiveCapacity, FullResult.SubscribedCapacity,
                                    FullResult.TotalUsableCapacity)]
  /\ pc' = [pc EXCEPT ![r] = "srp_keys"]
  /\ UNCHANGED <<history, serverVars, active_connections, ws, response, bc, published, exc, session,
                 envVars, clock, before>>

\* get_system_summary: get_array_keys, then get_array_stats; every failure
\* leaves as a DataCollectionError
get_system_summary(r) ==
  /\ pc[r] = "system"
  /\ \/ \E e \in (FetchExceptions \cup {"KeyError"}) \cap faults :
          /\ fetched' = [fetched EXCEPT ![r] = Append(@, Call("get_array_keys", 0, e))]
          /\ raise(r, DataCollectionError(SystemPrefix(e), e))
          /\ UNCHANGED asm
     \/ /\ "empty" \in faults
        /\ fetched' = [fetched EXCEPT ![r] = Append(@, Call("get_array_keys", 0, "empty"))]
        /\ raise(r, DataCollectionError(SystemPrefix("DataCollectionError"), "No array keys found"))
        /\ UNCHANGED asm
     \/ \E e \in (FetchExceptions \cup {"KeyError"}) \cap faults :
          /\ fetched' = [fetched EXCEPT ![r] = @ \o <<Call("get_array_keys", 0, "ok"),
                                                      Call("get_array_stats", 0, e)>>]
          /\ raise(r, DataCollectionError(SystemPrefix(e), e))
          /\ UNCHANGED asm
     \/ /\ "invalid" \in faults
        /\ fetched' = [fetched EXCEPT ![r] = @ \o <<Call("get_array_keys", 0, "ok"),
                                                    Call("get_array_stats", 0, "invalid")>>]
        /\ raise(r, DataCollectionError(SystemPrefix("DataCollectionError"),
                                        "Invalid response format from performance API"))
        /\ UNCHANGED asm
     \/ \E result \in {x \in SystemResults : x = FullResult \/ "empty" \in faults}
                    \cup OutOfRange(SystemValues) :
          /\ fetched' = [fetched EXCEPT ![r] = @ \o <<Call("get_array_keys", 0, "ok"),
                                                      Call("get_array_stats", 0, "ok")>>]
          /\ asm' = [asm EXCEPT ![r].system_capacity =
                       SystemCapacity(ArrayId, clock, result.EffectiveUsedCapacity,
                                      result.MaxEffectiveCapacity, result.SubscribedCapacity,
                                      result.TotalUsableCapacity)]
          /\ pc' = [pc EXCEPT ![r] = "srp_keys"]
          /\ UNCHANGED exc
  /\ UNCHANGED <<history, serverVars, active_connections, ws, response, bc, published, session,
                 envVars, clock, before>>

\* the message prefix of a level collector's two outer except clauses
LevelPrefix(level, cause) ==
  IF cause = "VolumeBackendAPIException"
    THEN CASE level = "srp" -> "Failed to retrieve SRP capacity"
           [] level = "sg" -> "Failed to retrieve storage groups"
           [] level = "vol" -> "Failed to retrieve volumes"
    ELSE CASE level = "srp" -> "SRP capacity collection failed"
           [] level = "sg" -> "Storage group collection failed"
           [] level = "vol" -> "Volume collection failed"

\* the id-list call as it would be if its failure degraded the level to an
\* empty result: the collector returns [] and the caller goes on
list_call_degrades(r, call, level, item_pc, next_pc) ==
  \/ \E e \in FetchExceptions \cap faults :
       /\ fetched' = [fetched EXCEPT ![r] = Append(@, Call(call, 0, e))]
       /\ asm' = [asm EXCEPT ![r].ids = <<>>, ![r].k = 0]
       /\ pc' = [pc EXCEPT ![r] = next_pc]
       /\ UNCHANGED exc
  \/ /\ fetched' = [fetched EXCEPT ![r] = Append(@, Call(call, 0, "ok"))]
     /\ asm' = [asm EXCEPT ![r].ids = IdList(array[level]), ![r].k = 0]
     /\ pc' = [pc EXCEPT ![r] = IF array[level] = 0 THEN next_pc ELSE item_pc]
     /\ UNCHANGED exc

\* the id-list call of a level collector: it raises (the collector raises a
\* DataCollectionError), or returns the ids; with no ids the collector
\* returns its empty list
list_call(r, call, level, item_pc, next_pc) ==
  \/ \E e \in FetchExceptions \cap faults :
       /\ fetched' = [fetched EXCEPT ![r] = Append(@, Call(call, 0, e))]
       /\ raise(r, DataCollectionError(LevelPrefix(level, e), e))
       /\ UNCHANGED asm
  \/ /\ fetched' = [fetched EXCEPT ![r] = Append(@, Call(call, 0, "ok"))]
     /\ asm' = [asm EXCEPT ![r].ids = IdList(array[level]), ![r].k = 0]
     /\ pc' = [pc EXCEPT ![r] = IF array[level] = 0 THEN next_pc ELSE item_pc]
     /\ UNCHANGED exc

\* the end of an iteration as it would be if the loop were left after its
\* first pass (a break where the code has continue)
next_item_break(r, next_pc) ==
  pc' = [pc EXCEPT ![r] = next_pc]

\* the end of one iteration of a collector's for loop
next_item(r, next_pc) ==
  pc' = [pc EXCEPT ![r] = IF asm[r].k + 1 = Len(asm[r].ids) THEN next_pc ELSE @]

\* get_srp_capacity, lines 268-284
get_srp_capacity(r) ==
  /\ pc[r] = "srp_keys"
  /\ list_call(r, "get_storage_resource_pool_keys", "srp", "srp_stats", "sg_list")
  /\ UNCHANGED <<history, serverVars, active_connections, ws, response, bc, published, session,
                 envVars, clock, before>>

\* get_srp_capacity, lines 287-335: one iteration of the loop over srp_list
get_srp_capacity_item(r) ==
  /\ pc[r] = "srp_stats"
  /\ LET srp_id == asm[r].ids[asm[r].k + 1] IN
       \/ \* the entry has no storageResourcePoolId: skipped, nothing fetched
          /\ "no_id" \in faults
          /\ asm' = [asm EXCEPT ![r].k = @ + 1]
          /\ UNCHANGED fetched
       \/ \E e \in (FetchExceptions \cup {"malformed"}) \cap faults :
            /\ fetched' = [fetched EXCEPT ![r] =
                             Append(@, Call("get_storage_resource_pool_stats", srp_id, e))]
            /\ asm' = [asm EXCEPT ![r].k = @ + 1]
       \/ \E result \in SrpResults \cup OutOfRange(SrpValues) :
            /\ fetched' = [fetched EXCEPT ![r] =
                             Append(@, Call("get_storage_resource_pool_stats", srp_id, "ok"))]
            /\ asm' = [asm EXCEPT ![r].k = @ + 1,
                                  ![r].srp_capacities =
                                    Append(@, SrpCapacity(ArrayId, srp_id, clock,
                                                          result.UsedCapacity,
                                                          result.SubscribedCapacity,
                                                          result.TotalManagedSpace))]
  /\ next_item(r, "sg_list")
  /\ UNCHANGED <<history, serverVars, active_connections, ws, response, bc, published, exc, session,
                 envVars, clock, before>>

\* get_all_storage_groups, lines 380-396
get_all_storage_groups(r) ==
  /\ pc[r] = "sg_list"
  /\ list_call(r, "get_storage_group_list", "sg", "sg_details", "vol_list")
  /\ UNCHANGED <<history, serverVars, active_connections, ws, response, bc, published, session,
                 envVars, clock, before>>

\* get_all_storage_groups, lines 404-433: one iteration of the loop over sg_list
get_all_storage_groups_item(r) ==
  /\ pc[r] = "sg_details"
  /\ LET sg_id == asm[r].ids[asm[r].k + 1] IN
       \/ \E e \in (FetchExceptions \cup {"malformed", "empty"}) \cap faults :
            /\ fetched' = [fetched EXCEPT ![r] = Append(@, Call("get_storage_group", sg_id, e))]
            /\ asm' = [asm EXCEPT ![r].k = @ + 1]
       \/ \E sg_details \in StorageGroupDetails \cup OutOfRange(StorageGroupValues) :
            /\ fetched' = [fetched EXCEPT ![r] = Append(@, Call("get_storage_group", sg_id, "ok"))]
            /\ asm' = [asm EXCEPT ![r].k = @ + 1,
                                  ![r].sg_details = sg_details,
                                  ![r].storage_group_capacities =
                                    Append(@, StorageGroupCapacity(ArrayId, sg_id, clock,
                                                sg_details.cap_gb, sg_details.num_of_vols,
                                                sg_details.slo, sg_details.srp,
                                                sg_details.compression))]
  /\ next_item(r, "vol_list")
  /\ UNCHANGED <<history, serverVars, active_connections, ws, response, bc, published, exc, session,
                 envVars, clock, before>>

\* get_all_volumes, lines 483-500
get_all_volumes(r) ==
  /\ pc[r] = "vol_list"
  /\ list_call(r, "get_volume_list", "vol", "vol_details", "snapshot")
  /\ UNCHANGED <<history, serverVars, active_connections, ws, response, bc, published, session,
                 envVars, clock, before>>

\* the volume loop as it would be without its inner try: the exception of
\* get_volume reaches the collector's outer except clauses
get_all_volumes_item_raises(r) ==
  /\ pc[r] = "vol_details"
  /\ LET volume_id == asm[r].ids[asm[r].k + 1] IN
       \/ \E e \in FetchExceptions \cap faults :
            /\ fetched' = [fetched EXCEPT ![r] = Append(@, Call("get_volume", volume_id, e))]
            /\ asm' = [asm EXCEPT ![r].k = @ + 1]
            /\ raise(r, DataCollectionError(LevelPrefix("vol", e), e))
       \/ \E vol_details \in VolumeDetails :
            /\ fetched' = [fetched EXCEPT ![r] = Append(@, Call("get_volume", volume_id, "ok"))]
            /\ asm' = [asm EXCEPT ![r].k = @ + 1,
                                  ![r].volume_capacities =
                                    Append(@, VolumeCapacity(ArrayId, volume_id,
                                                vol_details.volume_identifier, clock,
                                                vol_details.cap_gb, vol_details.allocated_percent,
                                                vol_details.storageGroupId, vol_details.wwn,
                                                vol_details.type))]
            /\ next_item(r, "snapshot")
            /\ UNCHANGED exc
  /\ UNCHANGED <<history, serverVars, active_connections, ws, response, bc, published, session,
                 envVars, clock, before>>

\* get_all_volumes, lines 511-548: one iteration of the loop over volume_list
get_all_volumes_item(r) ==
  /\ pc[r] = "vol_details"
  /\ LET volume_id == asm[r].ids[asm[r].k + 1] IN
       \/ \E e \in (FetchExceptions \cup {"malformed", "empty"}) \cap faults :
            /\ fetched' = [fetched EXCEPT ![r] = Append(@, Call("get_volume", volume_id, e))]
            /\ asm' = [asm EXCEPT ![r].k = @ + 1]
       \/ \E vol_details \in VolumeDetails \cup OutOfRange(VolumeValues) :
            /\ fetched' = [fetched EXCEPT ![r] = Append(@, Call("get_volume", volume_id, "ok"))]
            /\ asm' = [asm EXCEPT ![r].k = @ + 1,
                                  ![r].vol_details = vol_details,
                                  ![r].volume_capacities =
                                    Append(@, VolumeCapacity(ArrayId, volume_id,
                                                vol_details.volume_identifier, clock,
                                                vol_details.cap_gb, vol_details.allocated_percent,
                                                vol_details.storageGroupId, vol_details.wwn,
                                                vol_details.type))]
  /\ next_item(r, "snapshot")
  /\ UNCHANGED <<history, serverVars, active_connections, ws, response, bc, published, exc, session,
                 envVars, clock, before>>

\* the same as it would be if the snapshot were stamped when it is built
get_all_capacity_data_return_stamps_now(r) ==
  /\ pc[r] = "snapshot"
  /\ asm' = [asm EXCEPT ![r].snapshot =
               CapacitySnapshot(ArrayId, clock, asm[r].system_capacity,
                                asm[r].srp_capacities, asm[r].storage_group_capacities,
                                asm[r].volume_capacities)]
  /\ pc' = [pc EXCEPT ![r] = "store"]
  /\ UNCHANGED <<history, serverVars, active_connections, ws, response, bc, published, exc, session,
                 fetched, envVars, clock, before>>

\* get_all_capacity_data, lines 612-631: build the snapshot and return it
get_all_capacity_data_return(r) ==
  /\ pc[r] = "snapshot"
  /\ asm' = [asm EXCEPT ![r].snapshot =
               CapacitySnapshot(ArrayId, asm[r].collection_start, asm[r].system_capacity,
                                asm[r].srp_capacities, asm[r].storage_group_capacities,
                                asm[r].volume_capacities)]
  /\ pc' = [pc EXCEPT ![r] = "store"]
  /\ UNCHANGED <<history, serverVars, active_connections, ws, response, bc, published, exc, session,
                 fetched, envVars, clock, before>>

\* ------------------------------------------------ collect_capacity_data
\* store_snapshot as it would be if the task gave up control between the
\* assignments: the snapshot is replaced, last_collection_time not yet
store_snapshot_leaves_time(r) ==
  /\ pc[r] = "store"
  /\ current_snapshot' = asm[r].snapshot
  /\ collection_error' = None
  /\ broadcast(r, [type |-> "collection_completed", timestamp |-> clock])
  /\ UNCHANGED <<history, collection_in_progress, last_collection_time, active_connections, ws,
                 response, exc, session, asm, fetched, envVars, clock, before>>

\* lines 197-214: replace the snapshot, publish collection_completed
store_snapshot(r) ==
  /\ pc[r] = "store"
  /\ current_snapshot' = asm[r].snapshot
  /\ last_collection_time' = clock
  /\ collection_error' = None
  /\ broadcast(r, [type |-> "collection_completed", timestamp |-> clock,
                   summary |-> [array_id |-> asm[r].snapshot.array_id,
                                total_srps |-> total_srps(asm[r].snapshot),
                                total_storage_groups |-> total_storage_groups(asm[r].snapshot),
                                total_volumes |-> total_volumes(asm[r].snapshot),
                                system_utilization_percent |->
                                  asm[r].snapshot.system_capacity.utilization_percent]])
  /\ UNCHANGED <<history, collection_in_progress, active_connections, ws, response, exc, session,
                 asm, fetched, envVars, clock, before>>

\* close as it would be if an error of close_session left __exit__
close_lets_error_out(r) ==
  /\ pc[r] = "with_exit"
  /\ \E result \in {"closed"} \cup ({"close_error"} \cap faults) :
       /\ session' = [session EXCEPT ![r].conn = result, ![r].closes = @ + 1]
       /\ exc' = [exc EXCEPT ![r] = IF result = "close_error"
                                      THEN [type |-> "Exception", prefix |-> "close_session",
                                            cause |-> "close_error"]
                                      ELSE @]
       /\ pc' = [pc EXCEPT ![r] = IF exc[r] = None /\ result = "closed" THEN "finally" ELSE "except"]
  /\ UNCHANGED <<history, serverVars, active_connections, ws, response, bc, published, asm,
                 fetched, envVars, clock, before>>

\* VmaxCapacityCollector.__exit__ and close: close_session is called once;
\* an error of close_session is logged and swallowed
close(r) ==
  /\ pc[r] = "with_exit"
  /\ \E result \in {"closed"} \cup ({"close_error"} \cap faults) :
       session' = [session EXCEPT ![r].conn = result, ![r].closes = @ + 1]
  /\ pc' = [pc EXCEPT ![r] = IF exc[r] = None THEN "finally" ELSE "except"]
  /\ UNCHANGED <<history, serverVars, active_connections, ws, response, bc, published, exc, asm,
                 fetched, envVars, clock, before>>

\* lines 216-225: the except clause
except_handler(r) ==
  /\ pc[r] = "except"
  /\ collection_error' = exc[r]
  /\ broadcast(r, [type |-> "collection_error", error |-> exc[r], timestamp |-> clock])
  /\ UNCHANGED <<history, current_snapshot, collection_in_progress, last_collection_time,
                 active_connections, ws, response, exc, session, asm, fetched, envVars, clock, before>>

\* lines 227-228: the finally clause; the task ends (raising the exception
\* of the except clause's own broadcast if there is one)
finally(r) ==
  /\ pc[r] = "finally"
  /\ collection_in_progress' = FALSE
  /\ end_task(r)
  /\ UNCHANGED <<current_snapshot, last_collection_time, collection_error,
                 active_connections, ws, response, envVars, clock>>

\* ------------------------------------------------------ query handlers
\* `if p:` for a string and for an int parameter
TruthyStr(p) == p.given /\ p.value # ""
TruthyInt(p) == p.given /\ p.value # 0

\* a slice index as Python normalises it for a list of length n
Clamp(i, n) == IF i < 0 THEN (IF i + n < 0 THEN 0 ELSE i + n) ELSE (IF i > n THEN n ELSE i)
\* s[start:stop]
Slice(s, start, stop) ==
  LET a == Clamp(start, Len(s))
      b == Clamp(stop, Len(s))
  IN IF a < b THEN SubSeq(s, a + 1, b) ELSE <<>>

RECURSIVE InsertDesc(_, _)
\* x put into a list sorted by capacity_gb descending, after its equals
InsertDesc(s, x) ==
  IF s = <<>> THEN <<x>>
  ELSE IF Head(s).capacity_gb >= x.capacity_gb THEN <<Head(s)>> \o InsertDesc(Tail(s), x)
       ELSE <<x>> \o s
RECURSIVE SortedByCapacity(_)
\* sorted(s, key=lambda x: x.capacity_gb, reverse=True): stable
SortedByCapacity(s) ==
  IF s = <<>> THEN <<>>
  ELSE InsertDesc(SortedByCapacity(SubSeq(s, 1, Len(s) - 1)), s[Len(s)])

\* dataclass_to_dict: one key per field, lists converted item by item
dataclass_to_dict(obj) == [f \in DOMAIN obj |-> obj[f]]
ToDicts(s) == [i \in 1..Len(s) |-> dataclass_to_dict(s[i])]

NoData == "No data available. Run collection first."

\* a handler returns: nothing but the reply changes
reply(status, detail, request) ==
  /\ response' = [status |-> status, detail |-> detail, request |-> request]
  /\ UNCHANGED <<serverVars, active_connections, ws, taskVars, envVars, clock, history>>

\* StatusResponse as get_status builds it from the globals
StatusResponse ==
  [collection_in_progress |-> collection_in_progress,
   last_collection_time |-> last_collection_time,
   has_data |-> current_snapshot # None,
   error |-> collection_error,
   array_id |-> IF current_snapshot # None THEN current_snapshot.array_id ELSE None]

get_status ==
  /\ ~Busy
  /\ reply(200, StatusResponse, <<"get_status">>)

get_system_capacity ==
  /\ ~Busy
  /\ IF current_snapshot = None
       THEN reply(404, NoData, <<"get_system_capacity">>)
       ELSE reply(200, dataclass_to_dict(current_snapshot.system_capacity), <<"get_system_capacity">>)

\* get_storage_groups as it would be if it cut the list before sorting it
storage_groups_of_cut_first(snapshot, service_level, srp_name, limit) ==
  LET all == snapshot.storage_group_capacities
      by_level == IF TruthyStr(service_level)
                    THEN SelectSeq(all, LAMBDA sg : sg.service_level = service_level)
                    ELSE all
      by_srp == IF TruthyStr(srp_name)
                  THEN SelectSeq(by_level, LAMBDA sg : sg.srp_name = srp_name.value)
                  ELSE by_level
  IN ToDicts(SortedByCapacity(IF TruthyInt(limit) THEN Slice(by_srp, 0, limit.value) ELSE by_srp))

\* what get_storage_groups returns for a snapshot
storage_groups_of(snapshot, service_level, srp_name, limit) ==
  LET all == snapshot.storage_group_capacities
      by_level == IF TruthyStr(service_level)
                    THEN SelectSeq(all, LAMBDA sg : sg.service_level = service_level)
                    ELSE all
      by_srp == IF TruthyStr(srp_name)
                  THEN SelectSeq(by_level, LAMBDA sg : sg.srp_name = srp_name.value)
                  ELSE by_level
      ordered == SortedByCapacity(by_srp)
  IN ToDicts(IF TruthyInt(limit) THEN Slice(ordered, 0, limit.value) ELSE ordered)

get_storage_groups(service_level, srp_name, limit) ==
  /\ ~Busy
  /\ IF current_snapshot = None
       THEN reply(404, NoData, <<"get_storage_groups", service_level, srp_name, limit>>)
       ELSE reply(200, storage_groups_of(current_snapshot, service_level, srp_name, limit),
                  <<"get_storage_groups", service_level, srp_name, limit>>)

\* get_volumes as it would be if it took the page before sorting
volumes_of_page_first(snapshot, storage_group, limit, offset) ==
  LET all == snapshot.volume_capacities
      filtered == IF TruthyStr(storage_group)
                    THEN SelectSeq(all, LAMBDA v : Contains(v.storage_groups, storage_group.value))
                    ELSE all
  IN [total |-> Len(filtered), offset |-> offset, limit |-> limit,
      items |-> ToDicts(SortedByCapacity(IF TruthyInt(limit)
                                           THEN Slice(filtered, offset, offset + limit.value)
                                           ELSE filtered))]

\* what get_volumes returns for a snapshot
volumes_of(snapshot, storage_group, limit, offset) ==
  LET all == snapshot.volume_capacities
      filtered == IF TruthyStr(storage_group)
                    THEN SelectSeq(all, LAMBDA v : Contains(v.storage_groups, storage_group.value))
                    ELSE all
      ordered == SortedByCapacity(filtered)
  IN [total |-> Len(ordered), offset |-> offset, limit |-> limit,
      items |-> ToDicts(IF TruthyInt(limit)
                          THEN Slice(ordered, offset, offset + limit.value)
                          ELSE ordered)]

get_volumes(storage_group, limit, offset) ==
  /\ ~Busy
  /\ IF current_snapshot = None
       THEN reply(404, NoData, <<"get_volumes", storage_group, limit, offset>>)
       ELSE reply(200, volumes_of(current_snapshot, storage_group, limit, offset),
                  <<"get_volumes", storage_group, limit, offset>>)

\* the parameters queries are sent with
Labels == {"Diamond", "Gold"}
Pools == {"SRP_1", "SRP_2"}
GroupNames == {"sg_1", "sg_2"}
Capacities == {10, 20}
StrParams(values) == {Absent, Some("")} \cup {Some(v) : v \in values}
Limits == {Absent} \cup {Some(n) : n \in -1..MaxLimit}
Offsets == 0..MaxLimit

\* the snapshots queried: up to MaxGroups storage groups, or up to MaxVolumes
\* volumes, numbered in list order
GroupKinds == [capacity_gb : Capacities, service_level : {Some(label) : label \in Labels}, srp_name : Pools]
VolumeKinds == [capacity_gb : Capacities,
                storage_groups : {<<>>, <<"sg_1">>, <<"sg_1", "sg_2">>}]
SeqsUpTo(S, n) == UNION {[1..k -> S] : k \in 0..n}
QuerySnapshots ==
  { CapacitySnapshot(ArrayId, 0, None, <<>>,
      [i \in 1..Len(kinds) |->
         StorageGroupCapacity(ArrayId, i, 0, kinds[i].capacity_gb, 1,
                              kinds[i].service_level, kinds[i].srp_name, FALSE)],
      <<>>) : kinds \in SeqsUpTo(GroupKinds, MaxGroups) }
  \cup
  { CapacitySnapshot(ArrayId, 0, None, <<>>, <<>>,
      [i \in 1..Len(kinds) |->
         VolumeCapacity(ArrayId, i, "vol", 0, kinds[i].capacity_gb, 40,
                        kinds[i].storage_groups, "60000970", "FBA")])
      : kinds \in SeqsUpTo(VolumeKinds, MaxVolumes) }

\* ---------------------------------------------------- summary and trends
\* round(x, 2): the percentages here are whole numbers
round(x, ndigits) == x

\* CapacitySnapshot.summary
summary(snapshot) ==
  [array_id |-> snapshot.array_id,
   collection_timestamp |-> snapshot.collection_timestamp,
   system |-> [total_usable_gb |-> snapshot.system_capacity.total_usable_capacity_gb,
               used_gb |-> snapshot.system_capacity.effective_used_capacity_gb,
               free_gb |-> snapshot.system_capacity.free_capacity_gb,
               utilization_percent |-> round(snapshot.system_capacity.utilization_percent, 2)],
   counts |-> [srps |-> total_srps(snapshot),
               storage_groups |-> total_storage_groups(snapshot),
               volumes |-> total_volumes(snapshot)]]

get_summary ==
  /\ ~Busy
  /\ IF current_snapshot = None
       THEN reply(404, NoData, <<"get_summary">>)
       ELSE reply(200, summary(current_snapshot), <<"get_summary">>)

\* sg.service_level or "None"
service_level_or_None(sg) ==
  IF TruthyStr(sg.service_level) THEN sg.service_level.value ELSE "None"

\* the breakdown as it would be if a group without a label were left out
add_to_breakdown_labelled_only(breakdown, sg) ==
  LET slo == service_level_or_None(sg)
      opened == IF \E i \in 1..Len(breakdown) : breakdown[i].service_level = slo
                  THEN breakdown
                  ELSE Append(breakdown, [service_level |-> slo, count |-> 0,
                                          total_capacity_gb |-> 0, num_volumes |-> 0])
  IN IF ~TruthyStr(sg.service_level) THEN breakdown
     ELSE [i \in 1..Len(opened) |->
             IF opened[i].service_level = slo
               THEN [opened[i] EXCEPT !.count = @ + 1,
                                      !.total_capacity_gb = @ + sg.capacity_gb,
                                      !.num_volumes = @ + sg.num_volumes]
               ELSE opened[i]]

\* one turn of the loop of get_service_level_breakdown: the dict keeps its
\* keys in the order they were first added
add_to_breakdown(breakdown, sg) ==
  LET slo == service_level_or_None(sg)
      opened == IF \E i \in 1..Len(breakdown) : breakdown[i].service_level = slo
                  THEN breakdown
                  ELSE Append(breakdown, [service_level |-> slo, count |-> 0,
                                          total_capacity_gb |-> 0, num_volumes |-> 0])
  IN [i \in 1..Len(opened) |->
        IF opened[i].service_level = slo
          THEN [opened[i] EXCEPT !.count = @ + 1,
                                 !.total_capacity_gb = @ + sg.capacity_gb,
                                 !.num_volumes = @ + sg.num_volumes]
          ELSE opened[i]]

RECURSIVE breakdown_of(_)
\* list(breakdown.values()) after the loop over the groups s
breakdown_of(s) ==
  IF s = <<>> THEN <<>>
  ELSE add_to_breakdown(breakdown_of(SubSeq(s, 1, Len(s) - 1)), s[Len(s)])

get_service_level_breakdown ==
  /\ ~Busy
  /\ IF current_snapshot = None
       THEN reply(404, NoData, <<"get_service_level_breakdown">>)
       ELSE reply(200, breakdown_of(current_snapshot.storage_group_capacities),
                  <<"get_service_level_breakdown">>)

\* limit: int = 10
DefaultTop == 10

\* the top consumers as they would be if the list were cut before the sort
top_consumers_of_cut_first(snapshot, limit) ==
  ToDicts(SortedByCapacity(Slice(snapshot.storage_group_capacities, 0,
                                 IF limit.given THEN limit.value ELSE DefaultTop)))

top_consumers_of(snapshot, limit) ==
  ToDicts(Slice(SortedByCapacity(snapshot.storage_group_capacities), 0,
                IF limit.given THEN limit.value ELSE DefaultTop))

\* get_top_consumers as it would be if it sorted the stored list itself
\* (list.sort) instead of a copy (sorted)
get_top_consumers_sorts_in_place(limit) ==
  /\ ~Busy
  /\ current_snapshot # None
  /\ current_snapshot' = [current_snapshot EXCEPT !.storage_group_capacities = SortedByCapacity(@)]
  /\ response' = [status |-> 200, detail |-> top_consumers_of(current_snapshot, limit),
                  request |-> <<"get_top_consumers", limit>>]
  /\ UNCHANGED <<collection_in_progress, last_collection_time, collection_error,
                 active_connections, ws, taskVars, envVars, clock, history>>

get_top_consumers(limit) ==
  /\ ~Busy
  /\ IF current_snapshot = None
       THEN reply(404, NoData, <<"get_top_consumers", limit>>)
       ELSE reply(200, top_consumers_of(current_snapshot, limit), <<"get_top_consumers", limit>>)

\* the stored snapshots the summary and the trends are asked about
TrendLabels == {Absent, Some("")} \cup {Some(label) : label \in Labels}
TrendCapacities == {10, 50, 100}
TrendKinds == [capacity_gb : TrendCapacities, service_level : TrendLabels, num_volumes : {1, 2}]
TrendSnapshots ==
  { CapacitySnapshot(ArrayId, 0, SystemCapacity(ArrayId, 0, 750, 1000, 1200, 1500), <<>>,
      [i \in 1..Len(kinds) |->
         StorageGroupCapacity(ArrayId, i, 0, kinds[i].capacity_gb, kinds[i].num_volumes,
                              kinds[i].service_level, "SRP_1", FALSE)],
      <<VolumeCapacity(ArrayId, 1, "vol", 0, 10, 40, <<"sg_1">>, "60000970", "FBA"),
        VolumeCapacity(ArrayId, 2, "vol", 0, 50, 40, <<"sg_1">>, "60000970", "FBA")>>)
    : kinds \in SeqsUpTo(TrendKinds, MaxGroups) }

\* ------------------------------------------------------- specifications
Step(r) ==
  \/ collect_capacity_data(r)
  \/ broadcast_next(r)
  \/ send_json_returns(r)
  \/ send_json_raises(r)
  \/ broadcast_cleanup(r)
  \/ collector_open(r)
  \/ get_all_capacity_data(r)
  \/ get_system_summary(r)
  \/ get_srp_capacity(r)
  \/ get_srp_capacity_item(r)
  \/ get_all_storage_groups(r)
  \/ get_all_storage_groups_item(r)
  \/ get_all_volumes(r)
  \/ get_all_volumes_item(r)
  \/ get_all_capacity_data_return(r)
  \/ store_snapshot(r)
  \/ close(r)
  \/ except_handler(r)
  \/ finally(r)

\* the server: triggers, clients and collection tasks, the clock standing still
Next ==
  \/ \E force_refresh \in BOOLEAN : trigger_collection(force_refresh)
  \/ \E w \in Sockets : connect(w)
  \/ \E w \in Sockets : websocket_endpoint_except(w)
  \/ \E r \in Runs : Step(r)

Spec == Init /\ [][Next]_vars

\* one collection task on its own: no client is connected, so no broadcast waits
NextRun ==
  \E r \in Runs :
    \/ collect_capacity_data(r)
    \/ broadcast_next(r)
    \/ broadcast_cleanup(r)
    \/ collector_open(r)
    \/ get_all_capacity_data(r)
    \/ get_system_summary(r)
    \/ get_srp_capacity(r)
    \/ get_srp_capacity_item(r)
    \/ get_all_storage_groups(r)
    \/ get_all_storage_groups_item(r)
    \/ get_all_volumes(r)
    \/ get_all_volumes_item(r)
    \/ get_all_capacity_data_return(r)
    \/ store_snapshot(r)
    \/ close(r)
    \/ except_handler(r)
    \/ finally(r)

SpecRun == InitRun /\ [][NextRun]_vars

\* the notification bus: one task and the clients that come and go while it
\* publishes.  The event loop resumes every coroutine that is ready, so the
\* steps a task takes by itself are taken (weak fairness); when a send to a
\* client returns or raises is up to the client, and nothing says it does.
InitBus ==
  /\ current_snapshot = None
  /\ collection_in_progress = FALSE
  /\ last_collection_time = NoTime
  /\ collection_error = None
  /\ active_connections = <<>>
  /\ ws = [w \in Sockets |-> IF w <= MaxBusSockets THEN "new" ELSE "gone"]
  /\ response = [status |-> 200, detail |-> "started"]
  /\ pc = [r \in Runs |-> IF r = 1 THEN "scheduled" ELSE "idle"]
  /\ InitTasks
  /\ history = NoHistory
  /\ array \in ServerArrays
  /\ faults = ServerFaults
  /\ clock = 1

NextBus ==
  \/ \E w \in Sockets : connect(w)
  \/ \E w \in Sockets : websocket_endpoint_except(w)
  \/ \E r \in Runs : Step(r)

SpecBus == InitBus /\ [][NextBus]_vars /\ WF_vars(NextRun)

\* the query layer alone: a stored snapshot, or none, and the two list queries
InitQuery ==
  /\ current_snapshot \in QuerySnapshots \cup {None}
  /\ collection_in_progress = FALSE
  /\ last_collection_time = IF current_snapshot = None THEN NoTime ELSE 0
  /\ collection_error = None
  /\ active_connections = <<>>
  /\ ws = [w \in Sockets |-> "gone"]
  /\ response = None
  /\ pc = [r \in Runs |-> "idle"]
  /\ InitTasks
  /\ InitHistory
  /\ array = [l \in Levels |-> 0]
  /\ faults = {}
  /\ clock = 1

\* one query is sent in each behaviour
NextQuery ==
  /\ response = None
  /\ \/ \E service_level \in StrParams(Labels), srp_name \in StrParams(Pools), limit \in Limits :
          get_storage_groups(service_level, srp_name, limit)
     \/ \E storage_group \in StrParams(GroupNames), limit \in Limits, offset \in Offsets :
          get_volumes(storage_group, limit, offset)

SpecQuery == InitQuery /\ [][NextQuery]_vars

\* the server answering status and data queries while collections run one
\* after the other: a client triggers again only when no task is left, and a
\* record is kept of how the tasks ended
InitServe ==
  /\ current_snapshot = None
  /\ collection_in_progress = FALSE
  /\ last_collection_time = NoTime
  /\ collection_error = None
  /\ active_connections = <<>>
  /\ ws = [w \in Sockets |-> IF w <= MaxServerSockets THEN "new" ELSE "gone"]
  /\ response = None
  /\ pc = [r \in Runs |-> "idle"]
  /\ InitTasks
  /\ InitHistory
  /\ array \in ServerArrays
  /\ faults = ServerFaults
  /\ clock = 1

ServeLimits == {Absent, Some(1)}

NextServe ==
  \/ /\ \A r \in Runs : pc[r] = "idle"
     /\ \E force_refresh \in BOOLEAN : trigger_collection(force_refresh)
  \/ \E w \in Sockets : connect(w)
  \/ \E w \in Sockets : websocket_endpoint_except(w)
  \/ \E r \in Runs : Step(r)
  \/ get_status
  \/ get_system_capacity
  \/ \E limit \in ServeLimits : get_volumes(Absent, limit, 0)

SpecServe == InitServe /\ [][NextServe]_vars

\* the summary and the trends asked, again and again, about a stored snapshot
InitTrends ==
  /\ current_snapshot \in TrendSnapshots \cup {None}
  /\ collection_in_progress = FALSE
  /\ last_collection_time = IF current_snapshot = None THEN NoTime ELSE 0
  /\ collection_error = None
  /\ active_connections = <<>>
  /\ ws = [w \in Sockets |-> "gone"]
  /\ response = None
  /\ pc = [r \in Runs |-> "idle"]
  /\ InitTasks
  /\ InitHistory
  /\ array = [l \in Levels |-> 0]
  /\ faults = {}
  /\ clock = 1

Tops == {Absent} \cup {Some(n) : n \in -1..MaxLimit}

NextTrends ==
  \/ get_status
  \/ get_system_capacity
  \/ get_summary
  \/ get_service_level_breakdown
  \/ \E limit \in Tops : get_top_consumers(limit)
  \/ get_storage_groups(Absent, Absent, Absent)
  \/ get_volumes(Absent, Absent, 0)

SpecTrends == InitTrends /\ [][NextTrends]_vars

\* one task against an array that answers every call, with any numbers
ValueArrays == {a \in [Levels -> 0..MaxIds] : a["srp"] <= 1 /\ a["sg"] <= 1}
InitValues ==
  /\ current_snapshot = None
  /\ collection_in_progress = FALSE
  /\ last_collection_time = NoTime
  /\ collection_error = None
  /\ active_connections = <<>>
  /\ ws = [w \in Sockets |-> "gone"]
  /\ response = [status |-> 200, detail |-> "started"]
  /\ pc = [r \in Runs |-> IF r = 1 THEN "scheduled" ELSE "idle"]
  /\ InitTasks
  /\ InitHistory
  /\ array \in ValueArrays
  /\ faults = ValueFaults
  /\ clock = 1

SpecValues == InitValues /\ [][NextRun]_vars

\* one task with the wall clock advancing between its steps; the only fault
\* is a connection error
InitClock ==
  /\ current_snapshot \in {None, PrevSnapshot}
  /\ collection_in_progress = FALSE
  /\ last_collection_time = IF current_snapshot = None THEN NoTime ELSE 0
  /\ collection_error = None
  /\ active_connections = <<>>
  /\ ws = [w \in Sockets |-> "gone"]
  /\ response = [status |-> 200, detail |-> "started"]
  /\ pc = [r \in Runs |-> IF r = 1 THEN "scheduled" ELSE "idle"]
  /\ InitTasks
  /\ InitHistory
  /\ array \in Arrays
  /\ faults = ServerFaults
  /\ clock = 1

NextClock == Tick \/ NextRun
SpecClock == InitClock /\ [][NextClock]_vars

\* ----------------------------------------------- reading a run's records
SystemCalls == {"get_array_keys", "get_array_stats"}
ListCalls == {"get_storage_resource_pool_keys", "get_storage_group_list", "get_volume_list"}
ItemCalls == {"get_storage_resource_pool_stats", "get_storage_group", "get_volume"}
Unreachable == {"ConnectionError", "AuthenticationError"}

\* the level an id-list call belongs to
LevelOf(call) ==
  CASE call = "get_storage_resource_pool_keys" -> "srp"
    [] call = "get_storage_group_list" -> "sg"
    [] call = "get_volume_list" -> "vol"

Fetches(r) == 1..Len(fetched[r])

\* the run is on its failure path: an exception is in flight towards the
\* except clause, or the except clause has published collection_error
OnFailurePath(r) ==
  \/ exc[r] # None
  \/ published[r] # <<>> /\ Last(published[r]).type = "collection_error"
TerminalError(r) == IF exc[r] # None THEN exc[r] ELSE Last(published[r]).error

SystemFetchFailed(r) ==
  \E i \in Fetches(r) : fetched[r][i].call \in SystemCalls /\ fetched[r][i].result # "ok"
ListOk(r, call) == \E i \in Fetches(r) : fetched[r][i] = Call(call, 0, "ok")
AllFetchesOk(r) ==
  /\ \E i \in Fetches(r) : fetched[r][i] = Call("get_array_stats", 0, "ok")
  /\ \A call \in ListCalls : ListOk(r, call)

RECURSIVE OkIds(_, _)
\* the ids whose item call returned details, in the order of the calls
OkIds(log, call) ==
  IF log = <<>> THEN <<>>
  ELSE (IF Head(log).call = call /\ Head(log).result = "ok" THEN <<Head(log).id>> ELSE <<>>)
       \o OkIds(Tail(log), call)
RECURSIVE FailedIds(_, _)
FailedIds(log, call) ==
  IF log = <<>> THEN <<>>
  ELSE (IF Head(log).call = call /\ Head(log).result # "ok" THEN <<Head(log).id>> ELSE <<>>)
       \o FailedIds(Tail(log), call)
Ids(entities, field) == [i \in 1..Len(entities) |-> entities[i][field]]

\* --------------------------------------------------------------- claims
\* C1: at most one collection run is in flight at any time: no run has
\* started and not reached its terminal step while another one has.
C1_AtMostOneRunInFlight == Cardinality({r \in Runs : InFlight(r)}) <= 1

\* C2: a trigger without force issued while some run is in flight (started,
\* not terminated) is answered 409 and schedules no run; a trigger with force
\* is answered 200 and schedules one.
C2_TriggerWhileInProgress ==
  [][\A force_refresh \in BOOLEAN :
       ((\E r \in Runs : InFlight(r)) /\ trigger_collection(force_refresh))
         => IF force_refresh THEN response'.status = 200 /\ pc' # pc
                             ELSE response'.status = 409 /\ pc' = pc]_vars

\* C3: a run that terminates after its except clause (it set collection_error
\* and published collection_error) leaves collection_in_progress false,
\* collection_error equal to the error it published, and current_snapshot
\* equal to what was stored when the run started.
C3_FailedRunLeavesStoreIntact ==
  [][\A r \in Runs :
       (finally(r) /\ Failed(r))
         => /\ collection_in_progress' = FALSE
            /\ collection_error' = Last(published[r]).error
            /\ current_snapshot' = before[r]]_vars

\* C4: collection_in_progress is never true when no run is executing.
C4_FlagOnlyWhileARunExecutes == collection_in_progress => \E r \in Runs : InFlight(r)

\* C5: when get_all_capacity_data returned a snapshot to a run, then at the
\* run's termination the store holds that snapshot, last_collection_time is
\* the time this run set, collection_error is None, collection_in_progress is
\* false, and the run published collection_completed with the snapshot's
\* array id, its three counts and its system utilization.
C5_SuccessfulRunOutcome ==
  [][\A r \in Runs :
       (finally(r) /\ asm[r].snapshot # None)
         => /\ current_snapshot' = asm[r].snapshot
            /\ collection_error' = None
            /\ collection_in_progress' = FALSE
            /\ \E i \in 1..Len(published[r]) :
                 /\ published[r][i].type = "collection_completed"
                 /\ last_collection_time' = published[r][i].timestamp
                 /\ published[r][i].summary =
                      [array_id |-> asm[r].snapshot.array_id,
                       total_srps |-> Len(asm[r].snapshot.srp_capacities),
                       total_storage_groups |-> Len(asm[r].snapshot.storage_group_capacities),
                       total_volumes |-> Len(asm[r].snapshot.volume_capacities),
                       system_utilization_percent |->
                         asm[r].snapshot.system_capacity.utilization_percent]]_vars

C8_ItemFailuresAreSkipped ==
  \A r \in Runs :
    /\ Ids(asm[r].srp_capacities, "srp_id")
         = OkIds(fetched[r], "get_storage_resource_pool_stats")
    /\ Ids(asm[r].storage_group_capacities, "storage_group_id")
         = OkIds(fetched[r], "get_storage_group")
    /\ Ids(asm[r].volume_capacities, "volume_id") = OkIds(fetched[r], "get_volume")
    /\ pc[r] \notin {"srp_stats", "sg_details", "vol_details"} => asm[r].k = Len(asm[r].ids)
    /\ \A call \in ListCalls :
         (ListOk(r, call) /\ OnFailurePath(r))
           => TerminalError(r).prefix \notin {LevelPrefix(LevelOf(call), e) : e \in AllFaults}

C8_Witness ==
  \E r \in Runs :
    /\ pc[r] = "sg_list"
    /\ array["srp"] = 2
    /\ FailedIds(fetched[r], "get_storage_resource_pool_stats") = <<1>>
    /\ Ids(asm[r].srp_capacities, "srp_id") = <<2>>

C10_ListFailureIsFatal ==
  \A r \in Runs : \A i \in Fetches(r) :
    (fetched[r][i].call \in ListCalls /\ fetched[r][i].result # "ok") =>
      /\ i = Len(fetched[r])
      /\ OnFailurePath(r)
      /\ TerminalError(r) = DataCollectionError(LevelPrefix(LevelOf(fetched[r][i].call),
                                                            fetched[r][i].result),
                                                fetched[r][i].result)
      /\ asm[r].snapshot = None
      /\ current_snapshot = before[r]
      /\ Failed(r) => collection_error = TerminalError(r)

C10_Witness ==
  \E r \in Runs :
    /\ pc[r] = "finally"
    /\ fetched[r] # <<>>
    /\ Last(fetched[r]) = Call("get_volume_list", 0, "VolumeBackendAPIException")
    /\ Len(asm[r].srp_capacities) = 1
    /\ collection_error = DataCollectionError("Failed to retrieve volumes", "VolumeBackendAPIException")
    /\ current_snapshot = PrevSnapshot

LevelRank(call) ==
  CASE call \in SystemCalls -> 0
    [] call \in {"get_storage_resource_pool_keys", "get_storage_resource_pool_stats"} -> 1
    [] call \in {"get_storage_group_list", "get_storage_group"} -> 2
    [] call \in {"get_volume_list", "get_volume"} -> 3

\* C12: the calls of a run come in the order system, pools, storage groups,
\* volumes: the first call is the system's, no call of an earlier level
\* follows a call of a later one, and a level's id list is fetched only
\* after the id list of the level before it.
C12_LevelsInOrder ==
  \A r \in Runs :
    /\ fetched[r] # <<>> => fetched[r][1].call = "get_array_keys"
    /\ \A i, j \in Fetches(r) :
         i < j => LevelRank(fetched[r][i].call) <= LevelRank(fetched[r][j].call)
    /\ ListOk(r, "get_volume_list") => ListOk(r, "get_storage_group_list")
    /\ ListOk(r, "get_storage_group_list") => ListOk(r, "get_storage_resource_pool_keys")

C12_Witness ==
  \E r \in Runs :
    /\ pc[r] = "snapshot"
    /\ Len(fetched[r]) = 7
    /\ \E i, j \in Fetches(r) :
         /\ fetched[r][i] = Call("get_storage_group", 1, "ok")
         /\ fetched[r][j] = Call("get_volume", 1, "ok")

\* the timestamps a snapshot carries, in the order they were taken: the
\* snapshot's own, the system's, then each pool's, group's and volume's
Timestamps(entities) == [i \in 1..Len(entities) |-> entities[i].timestamp]
Stamps(snapshot) ==
  <<snapshot.collection_timestamp>>
  \o (IF snapshot.system_capacity = None THEN <<>> ELSE <<snapshot.system_capacity.timestamp>>)
  \o Timestamps(snapshot.srp_capacities)
  \o Timestamps(snapshot.storage_group_capacities)
  \o Timestamps(snapshot.volume_capacities)
\* the snapshots there are: the one each run has built, the one stored
Produced == {asm[r].snapshot : r \in Runs} \cup {current_snapshot}

\* C18 as stated: in every snapshot produced, every entity's timestamp
\* equals the snapshot's collection_timestamp.
C18_OneTimestamp ==
  \A snapshot \in Produced \ {None} :
    \A i \in 1..Len(Stamps(snapshot)) : Stamps(snapshot)[i] = snapshot.collection_timestamp

\* C18 as the code has it: collection_timestamp is the clock reading taken
\* when get_all_capacity_data starts, every entity carries the reading taken
\* when it was built, so the timestamps never decrease from the snapshot's
\* through the system's, pools', groups' and volumes', and none is later than
\* the present reading.
C18_TimestampsInOrder ==
  /\ \A snapshot \in Produced \ {None} :
       /\ \A i, j \in 1..Len(Stamps(snapshot)) : i < j => Stamps(snapshot)[i] <= Stamps(snapshot)[j]
       /\ \A i \in 1..Len(Stamps(snapshot)) : Stamps(snapshot)[i] <= clock
  /\ \A r \in Runs :
       asm[r].snapshot # None => asm[r].snapshot.collection_timestamp = asm[r].collection_start

C18_Witness ==
  /\ current_snapshot # None
  /\ current_snapshot.collection_timestamp = 1
  /\ current_snapshot.system_capacity # None
  /\ current_snapshot.system_capacity.timestamp = 1
  /\ Len(current_snapshot.volume_capacities) = 2
  /\ current_snapshot.volume_capacities[1].timestamp = 1
  /\ current_snapshot.volume_capacities[2].timestamp = 2

\* the sockets in a list
Members(s) == {s[i] : i \in 1..Len(s)}

\* C13: when a broadcast ends, every subscriber registered at that moment
\* was sent the event (a send that raised stopped no later attempt), every
\* subscriber whose send raised is unregistered afterwards, and every
\* subscriber whose send returned is still registered unless its own handler
\* unregistered it meanwhile.
C13_BroadcastReachesAndCleans ==
  [][\A r \in Runs :
       broadcast_cleanup(r) =>
         /\ Members(active_connections) \subseteq Members(bc[r].tried)
         /\ Members(bc[r].disconnected) \cap Members(active_connections') = {}
         /\ \A w \in Members(bc[r].tried) \ Members(bc[r].disconnected) :
              w \in Members(active_connections') \/ ws[w] = "gone"]_vars

\* C14: every run that has started terminates, whether or not the clients
\* answer the sends.
C14_RunEndsWhateverTheClients ==
  \A r \in Runs : InFlight(r) ~> (pc[r] = "idle")

\* ------------------------------------------------- claims on the queries
\* the reply on hand answers the named handler with data
Answered(handler) ==
  /\ "request" \in DOMAIN response
  /\ response.status = 200
  /\ response.request[1] = handler

\* the place of entry i among the entries ids of a list, by capacity
\* descending, equal capacities in list order
RankIn(entities, ids, i) ==
  1 + Cardinality({j \in ids : \/ entities[j].capacity_gb > entities[i].capacity_gb
                               \/ /\ entities[j].capacity_gb = entities[i].capacity_gb
                                  /\ j < i})

\* the storage groups (by place in the snapshot) that pass the filters sent
MatchingGroups(service_level, srp_name) ==
  LET groups == current_snapshot.storage_group_capacities IN
  {i \in 1..Len(groups) :
     /\ TruthyStr(service_level) => groups[i].service_level = service_level
     /\ TruthyStr(srp_name) => groups[i].srp_name = srp_name.value}

\* the groups returned are matching groups, each once, as stored, in order of
\* capacity descending, and none left out is larger than one returned
GroupsReplyIsTop(items, matching) ==
  LET groups == current_snapshot.storage_group_capacities
      returned == {items[k].storage_group_id : k \in 1..Len(items)}
  IN /\ returned \subseteq matching
     /\ Cardinality(returned) = Len(items)
     /\ \A k \in 1..Len(items) :
          /\ items[k] = groups[items[k].storage_group_id]
          /\ RankIn(groups, matching, items[k].storage_group_id) = k

Min(a, b) == IF a < b THEN a ELSE b
Max(a, b) == IF a > b THEN a ELSE b

\* C19 as stated: the reply holds the matching groups by capacity descending,
\* cut to the first `limit` whenever a limit is sent (all of them when none is).
C19_GroupsCutToLimit ==
  Answered("get_storage_groups") =>
    LET service_level == response.request[2]
        srp_name == response.request[3]
        limit == response.request[4]
        matching == MatchingGroups(service_level, srp_name)
    IN /\ GroupsReplyIsTop(response.detail, matching)
       /\ ~limit.given => Len(response.detail) = Cardinality(matching)
       /\ (limit.given /\ limit.value >= 0)
            => Len(response.detail) = Min(limit.value, Cardinality(matching))

\* C19 as the code has it: the reply holds the matching groups by capacity
\* descending (equal capacities in snapshot order), cut to the first `limit`
\* when limit >= 1, not cut when limit is absent or 0, and without its last
\* -limit groups when limit is negative; in each case no matching group left
\* out is larger than a returned one.
C19_GroupsCutToPositiveLimit ==
  Answered("get_storage_groups") =>
    LET service_level == response.request[2]
        srp_name == response.request[3]
        limit == response.request[4]
        matching == MatchingGroups(service_level, srp_name)
        groups == current_snapshot.storage_group_capacities
    IN /\ GroupsReplyIsTop(response.detail, matching)
       /\ Len(response.detail) =
            IF ~TruthyInt(limit) THEN Cardinality(matching)
            ELSE IF limit.value >= 1 THEN Min(limit.value, Cardinality(matching))
            ELSE Max(0, Cardinality(matching) + limit.value)
       /\ \A k \in 1..Len(response.detail) :
            \A j \in matching \ {response.detail[n].storage_group_id : n \in 1..Len(response.detail)} :
              response.detail[k].capacity_gb >= groups[j].capacity_gb

C19_Witness ==
  /\ Answered("get_storage_groups")
  /\ response.request = <<"get_storage_groups", Some("Diamond"), Some("SRP_1"), Some(1)>>
  /\ Len(current_snapshot.storage_group_capacities) = 3
  /\ MatchingGroups(Some("Diamond"), Some("SRP_1")) = {1, 3}
  /\ Len(response.detail) = 1
  /\ response.detail[1].storage_group_id = 3
  /\ response.detail[1].capacity_gb = 20

\* the volumes (by place in the snapshot) that belong to the group sent, all
\* of them when none is sent
FilteredVolumes(storage_group) ==
  LET volumes == current_snapshot.volume_capacities IN
  {i \in 1..Len(volumes) :
     TruthyStr(storage_group) => Contains(volumes[i].storage_groups, storage_group.value)}

\* C20: for offset >= 0 and limit >= 1 the reply holds the volumes ranked
\* offset+1 to offset+limit by capacity descending among the volumes of the
\* group sent (all volumes when none is sent), fewer if the list ends, and
\* total is the number of those volumes whatever the page.
C20_VolumesPage ==
  (/\ Answered("get_volumes")
   /\ response.request[3].given
   /\ response.request[3].value >= 1
   /\ response.request[4] >= 0) =>
    LET storage_group == response.request[2]
        limit == response.request[3].value
        offset == response.request[4]
        volumes == current_snapshot.volume_capacities
        filtered == FilteredVolumes(storage_group)
        items == response.detail.items
    IN /\ response.detail.total = Cardinality(filtered)
       /\ Len(items) = Max(0, Min(limit, Cardinality(filtered) - offset))
       /\ \A k \in 1..Len(items) :
            /\ items[k].volume_id \in filtered
            /\ items[k] = volumes[items[k].volume_id]
            /\ RankIn(volumes, filtered, items[k].volume_id) = offset + k

C20_Witness ==
  /\ Answered("get_volumes")
  /\ response.request = <<"get_volumes", Some("sg_1"), Some(1), 1>>
  /\ Len(current_snapshot.volume_capacities) = 3
  /\ FilteredVolumes(Some("sg_1")) = {1, 2, 3}
  /\ response.detail.total = 3
  /\ Len(response.detail.items) = 1
  /\ response.detail.items[1].volume_id = 1
  /\ current_snapshot.volume_capacities[2].capacity_gb = 20
  /\ current_snapshot.volume_capacities[1].capacity_gb = 10
  /\ current_snapshot.volume_capacities[3].capacity_gb = 10

\* ------------------------------------- claims on queries during a run
\* the snapshots the store holds while task r runs: the one it found and the
\* one it built
Served(r) == {before[r], asm[r].snapshot}

\* a status reply taken from one state of the store
StatusOfOneStore(status, snapshot) ==
  /\ status.has_data = (snapshot # None)
  /\ status.array_id = IF snapshot = None THEN None ELSE snapshot.array_id
  /\ (status.last_collection_time = NoTime) = (snapshot = None)
  /\ snapshot # None => status.last_collection_time >= snapshot.collection_timestamp

\* a data reply taken from one snapshot
SystemOfOneStore(snapshot) ==
  IF snapshot = None
    THEN response'.status = 404 /\ response'.detail = NoData
    ELSE response'.status = 200 /\ response'.detail = snapshot.system_capacity

VolumesOfOneStore(snapshot, limit) ==
  IF snapshot = None
    THEN response'.status = 404 /\ response'.detail = NoData
    ELSE /\ response'.status = 200
         /\ response'.detail.total = Len(snapshot.volume_capacities)
         /\ \A k \in 1..Len(response'.detail.items) :
              \E i \in 1..Len(snapshot.volume_capacities) :
                response'.detail.items[k] = snapshot.volume_capacities[i]

\* C15: a status or data handler that runs while a collection task is in
\* flight answers from one state of the store, the one the task found or the
\* one it built, whole.
C15_QueriesSeeOneSnapshot ==
  [][\A r \in Runs : InFlight(r) =>
       /\ get_status => \E snapshot \in Served(r) : StatusOfOneStore(response'.detail, snapshot)
       /\ get_system_capacity => \E snapshot \in Served(r) : SystemOfOneStore(snapshot)
       /\ \A limit \in ServeLimits :
            get_volumes(Absent, limit, 0) =>
              \E snapshot \in Served(r) : VolumesOfOneStore(snapshot, limit)]_vars

C15_Witness ==
  /\ \E r \in Runs : /\ pc[r] = "send_json"
                     /\ bc[r].message.type = "collection_completed"
                     /\ current_snapshot = asm[r].snapshot
                     /\ before[r] = None
  /\ Answered("get_status")
  /\ response.detail.collection_in_progress
  /\ response.detail.has_data
  /\ response.detail.last_collection_time = last_collection_time

\* C16: a data query answers "no data" exactly when no run has succeeded so
\* far (asked while no task is in flight, so every run has its outcome).
C16_NoDataIffNoRunSucceeded ==
  [][((\A r \in Runs : ~InFlight(r)) /\ get_system_capacity)
       => ((response'.status = 404) = ~history.succeeded)]_vars

\* task r has replaced the snapshot
Stored(r) == \E i \in 1..Len(published[r]) : published[r][i].type = "collection_completed"

RECURSIVE SumOver(_, _)
\* the sum of f[i] over the indices i in S
SumOver(S, f) ==
  IF S = {} THEN 0
  ELSE LET i == CHOOSE j \in S : TRUE IN f[i] + SumOver(S \ {i}, f)

\* the category a group is counted in: its label, "None" when it has none
CategoryOf(sg) ==
  IF sg.service_level.given /\ sg.service_level.value # "" THEN sg.service_level.value ELSE "None"

\* C21: the breakdown has one category per distinct label of the stored
\* groups (no label: "None"); a category's count, total capacity and volume
\* count are the number, the summed capacity and the summed num_volumes of the
\* groups of that label, and the counts add up to total_storage_groups.
C21_BreakdownPerLabel ==
  Answered("get_service_level_breakdown") =>
    LET groups == current_snapshot.storage_group_capacities
        categories == response.detail
        of(label) == {i \in 1..Len(groups) : CategoryOf(groups[i]) = label}
    IN /\ {categories[k].service_level : k \in 1..Len(categories)}
            = {CategoryOf(groups[i]) : i \in 1..Len(groups)}
       /\ \A k, n \in 1..Len(categories) :
            categories[k].service_level = categories[n].service_level => k = n
       /\ \A k \in 1..Len(categories) :
            /\ categories[k].count = Cardinality(of(categories[k].service_level))
            /\ categories[k].total_capacity_gb =
                 SumOver(of(categories[k].service_level), [i \in 1..Len(groups) |-> groups[i].capacity_gb])
            /\ categories[k].num_volumes =
                 SumOver(of(categories[k].service_level), [i \in 1..Len(groups) |-> groups[i].num_volumes])
       /\ SumOver(1..Len(categories), [k \in 1..Len(categories) |-> categories[k].count])
            = total_storage_groups(current_snapshot)

C21_Witness ==
  /\ Answered("get_service_level_breakdown")
  /\ Len(current_snapshot.storage_group_capacities) = 3
  /\ current_snapshot.storage_group_capacities[1].service_level = Some("Diamond")
  /\ current_snapshot.storage_group_capacities[1].capacity_gb = 100
  /\ current_snapshot.storage_group_capacities[2].service_level = Some("Diamond")
  /\ current_snapshot.storage_group_capacities[2].capacity_gb = 50
  /\ current_snapshot.storage_group_capacities[3].service_level = Absent
  /\ current_snapshot.storage_group_capacities[3].capacity_gb = 10
  /\ Len(response.detail) = 2
  /\ response.detail[1].service_level = "Diamond"
  /\ response.detail[1].count = 2
  /\ response.detail[1].total_capacity_gb = 150
  /\ response.detail[2].service_level = "None"
  /\ response.detail[2].count = 1
  /\ response.detail[2].total_capacity_gb = 10

\* C22: top consumers asked with N >= 0, or without N (then N is 10), are
\* min(N, total_storage_groups) stored groups by capacity descending, and no
\* group left out is larger than a returned one.
C22_TopConsumers ==
  (/\ Answered("get_top_consumers")
   /\ response.request[2].given => response.request[2].value >= 0) =>
    LET groups == current_snapshot.storage_group_capacities
        N == IF response.request[2].given THEN response.request[2].value ELSE 10
        items == response.detail
        returned == {items[k].storage_group_id : k \in 1..Len(items)}
    IN /\ Len(items) = Min(N, total_storage_groups(current_snapshot))
       /\ Cardinality(returned) = Len(items)
       /\ \A k \in 1..Len(items) : items[k] = groups[items[k].storage_group_id]
       /\ \A k, n \in 1..Len(items) : k < n => items[k].capacity_gb >= items[n].capacity_gb
       /\ \A k \in 1..Len(items) : \A j \in (1..Len(groups)) \ returned :
            items[k].capacity_gb >= groups[j].capacity_gb

C22_Witness ==
  /\ Answered("get_top_consumers")
  /\ response.request[2] = Some(2)
  /\ Len(current_snapshot.storage_group_capacities) = 3
  /\ current_snapshot.storage_group_capacities[1].capacity_gb = 10
  /\ current_snapshot.storage_group_capacities[2].capacity_gb = 100
  /\ current_snapshot.storage_group_capacities[3].capacity_gb = 50
  /\ Len(response.detail) = 2
  /\ response.detail[1].storage_group_id = 2
  /\ response.detail[2].storage_group_id = 3

\* ------------------------------------------ claims on the data models
\* free and the percentages of an object follow from its own fields
DerivedFrom(free, whole, part, percents) ==
  IF whole > 0
    THEN /\ free = whole - part
         /\ \A p \in percents : p.percent * whole = p.of * 100
    ELSE /\ free = 0
         /\ \A p \in percents : p.percent = 0

SystemDerived(c) ==
  DerivedFrom(c.free_capacity_gb, c.max_effective_capacity_gb, c.effective_used_capacity_gb,
              {[percent |-> c.utilization_percent, of |-> c.effective_used_capacity_gb]})

SrpDerived(c) ==
  DerivedFrom(c.free_capacity_gb, c.total_managed_space_gb, c.used_capacity_gb,
              {[percent |-> c.utilization_percent, of |-> c.used_capacity_gb],
               [percent |-> c.subscription_percent, of |-> c.subscribed_capacity_gb]})

\* C23: every SystemCapacity built has free = max_effective - effective_used
\* and utilization_percent = effective_used / max_effective * 100 when
\* max_effective > 0, and both 0 otherwise; every SrpCapacity likewise has
\* free, utilization_percent and subscription_percent derived from
\* total_managed_space, all 0 when it is not positive.
C23_DerivedFields ==
  \A r \in Runs :
    /\ asm[r].system_capacity # None => SystemDerived(asm[r].system_capacity)
    /\ \A i \in 1..Len(asm[r].srp_capacities) : SrpDerived(asm[r].srp_capacities[i])

C23_Witness ==
  \E r \in Runs :
    /\ asm[r].system_capacity # None
    /\ asm[r].system_capacity.effective_used_capacity_gb = 750
    /\ asm[r].system_capacity.max_effective_capacity_gb = 1000
    /\ asm[r].system_capacity.free_capacity_gb = 250
    /\ asm[r].system_capacity.utilization_percent = 75
    /\ Len(asm[r].srp_capacities) = 1
    /\ asm[r].srp_capacities[1].total_managed_space_gb = 0
    /\ asm[r].srp_capacities[1].used_capacity_gb = 600
    /\ asm[r].srp_capacities[1].free_capacity_gb = 0
    /\ asm[r].srp_capacities[1].utilization_percent = 0
    /\ asm[r].srp_capacities[1].subscription_percent = 0

\* what __post_init__ is said to leave of a capacity and of a percentage
ExpectedCapacity(given) == Max(0, given)
ExpectedPercent(given) == IF given \in 0..100 THEN given ELSE 0

InRange(snapshot) ==
  /\ \A i \in 1..Len(snapshot.storage_group_capacities) :
       snapshot.storage_group_capacities[i].capacity_gb >= 0
  /\ \A i \in 1..Len(snapshot.volume_capacities) :
       /\ snapshot.volume_capacities[i].capacity_gb >= 0
       /\ snapshot.volume_capacities[i].allocated_percent \in 0..100

\* C24: a storage group or a volume built from a negative capacity has
\* capacity 0 and from any other capacity has that capacity; a volume built
\* from an allocated_percent outside 0..100 has 0 and from one inside has
\* that one; so every entity of a stored snapshot has capacity >= 0 and
\* allocated_percent in 0..100.
C24_Normalized ==
  [][/\ current_snapshot' # None => InRange(current_snapshot')
     /\ \A r \in Runs :
          /\ (/\ get_all_storage_groups_item(r)
              /\ Len(asm'[r].storage_group_capacities) > Len(asm[r].storage_group_capacities))
               => Last(asm'[r].storage_group_capacities).capacity_gb
                    = ExpectedCapacity(asm'[r].sg_details.cap_gb)
          /\ (/\ get_all_volumes_item(r)
              /\ Len(asm'[r].volume_capacities) > Len(asm[r].volume_capacities))
               => /\ Last(asm'[r].volume_capacities).capacity_gb
                       = ExpectedCapacity(asm'[r].vol_details.cap_gb)
                  /\ Last(asm'[r].volume_capacities).allocated_percent
                       = ExpectedPercent(asm'[r].vol_details.allocated_percent)]_vars

C24_Witness ==
  /\ current_snapshot # None
  /\ Len(current_snapshot.storage_group_capacities) = 1
  /\ Len(current_snapshot.volume_capacities) = 2
  /\ \E r \in Runs :
       /\ asm[r].snapshot = current_snapshot
       /\ asm[r].sg_details.cap_gb = -5
       /\ asm[r].vol_details.cap_gb = -5
       /\ asm[r].vol_details.allocated_percent = 101
  /\ current_snapshot.storage_group_capacities[1].capacity_gb = 0
  /\ current_snapshot.volume_capacities[1].capacity_gb = 50
  /\ current_snapshot.volume_capacities[1].allocated_percent = 100
  /\ current_snapshot.volume_capacities[2].capacity_gb = 0
  /\ current_snapshot.volume_capacities[2].allocated_percent = 0

\* --------------------------------------------- claims on what queries change
\* C25: the status, the summary and every query leave the stored snapshot,
\* the order of its lists included, and the collection status as they were;
\* a summary asked right after a summary is the same summary.
C25_QueriesChangeNothing ==
  [][("request" \in DOMAIN response') =>
       /\ UNCHANGED <<current_snapshot, collection_in_progress, last_collection_time,
                      collection_error>>
       /\ (response'.request[1] = "get_summary" /\ response'.status = 200) =>
            /\ response'.detail = summary(current_snapshot')
            /\ Answered("get_summary") => response'.detail = response.detail]_vars

C25_Witness ==
  /\ Answered("get_top_consumers")
  /\ Len(current_snapshot.storage_group_capacities) = 2
  /\ current_snapshot.storage_group_capacities[1].capacity_gb = 10
  /\ current_snapshot.storage_group_capacities[2].capacity_gb = 100
  /\ Len(response.detail) = 2
  /\ response.detail[1].storage_group_id = 2
  /\ response.detail[2].storage_group_id = 1

\* C26: for every offset >= 0 and every limit, absent, 0 or positive, the
\* volumes returned are the filtered volumes by capacity descending without
\* the first `offset` of them, cut to at most `limit` when a limit is sent;
\* an offset without a limit skips the first `offset` volumes all the same.
C26_OffsetAlwaysSkips ==
  (/\ Answered("get_volumes")
   /\ response.request[4] >= 0
   /\ response.request[3].given => response.request[3].value >= 0) =>
    LET storage_group == response.request[2]
        limit == response.request[3]
        offset == response.request[4]
        volumes == current_snapshot.volume_capacities
        filtered == FilteredVolumes(storage_group)
        items == response.detail.items
        rest == Max(0, Cardinality(filtered) - offset)
    IN /\ Len(items) = IF limit.given THEN Min(limit.value, rest) ELSE rest
       /\ \A k \in 1..Len(items) :
            /\ items[k] = volumes[items[k].volume_id]
            /\ RankIn(volumes, filtered, items[k].volume_id) = offset + k

\* ------------------------------------------------ claims on the events
\* the places of the terminal events in what a task published
Terminals(log) ==
  {i \in 1..Len(log) : log[i].type \in {"collection_completed", "collection_error"}}

\* C27: a run publishes collection_started before any other event and before
\* any fetch, and by the time it terminates it has published exactly one
\* terminal event after it, collection_completed or collection_error.
C27_StartedThenOneTerminal ==
  [][\A r \in Runs :
       /\ (published'[r] # <<>> \/ fetched'[r] # <<>>) =>
            /\ published'[r] # <<>>
            /\ \A i \in 1..Len(published'[r]) :
                 (published'[r][i].type = "collection_started") = (i = 1)
       /\ (pc[r] # "idle" /\ pc'[r] = "idle") => Cardinality(Terminals(published[r])) = 1]_vars

\* C28: the clean-up of a broadcast does not raise to the task, also when a
\* client whose send failed was unregistered by its own handler meanwhile,
\* and it leaves none of the clients whose send failed registered.
C28_CleanupNeverRaises ==
  [][\A r \in Runs :
       broadcast_cleanup(r) =>
         /\ ~cleanup(active_connections, bc[r].disconnected).raised
         /\ \A w \in Members(bc[r].disconnected) : ~Contains(active_connections', w)]_vars

\* how often x occurs in s
Count(s, x) == Cardinality({i \in 1..Len(s) : s[i] = x})

\* C29: when a broadcast ends, every client that was registered when it
\* began and still is was sent the event exactly once, whoever connected or
\* disconnected meanwhile.
C29_OneAttemptEach ==
  [][\A r \in Runs :
       broadcast_cleanup(r) =>
         \A w \in Members(bc[r].registered) \cap Members(active_connections) :
           Count(bc[r].tried, w) = 1]_vars

\* C30: a run whose collector was constructed has closed the session exactly
\* once when it clears collection_in_progress, whether it succeeded or
\* failed, and a run that stored its snapshot does not fail because closing
\* raised.
C30_SessionClosedOnce ==
  [][\A r \in Runs :
       /\ session'[r].closes <= 1
       /\ finally(r) =>
            /\ session[r].conn # "none" =>
                 session[r].closes = 1 /\ session[r].conn \in {"closed", "close_error"}
            /\ (session[r].conn = "close_error" /\ asm[r].snapshot # None) =>
                 ~Failed(r) /\ collection_error = None]_vars

C30_Witness ==
  \E r \in Runs :
    /\ pc[r] = "finally"
    /\ session[r] = [conn |-> "close_error", closes |-> 1]
    /\ asm[r].snapshot # None
    /\ current_snapshot = asm[r].snapshot
    /\ ~Failed(r)

====
